---- MODULE Spec2Model ----
(***************************************************************************)
(* Model of the orchestration execution supervisor of AgentX               *)
(* (be/app/orchestration/service.py, class OrchestrationService) together  *)
(* with the chat-record store it writes to (be/app/agent/agent.py,         *)
(* ChatRecordService) and the router that schedules runs                   *)
(* (be/app/routers/orchestration.py).                                      *)
(*                                                                         *)
(* The service runs on one asyncio event loop.  Every action below is the  *)
(* code executed between two suspension points of that loop:               *)
(*   - the HTTP handlers create/stop are synchronous and run whole;        *)
(*   - execute_orchestration runs from its start to `await asyncio.wait`,  *)
(*     then from its resumption to its end (or to `await task`);           *)
(*   - the executor task and the task waiting on the cancellation event    *)
(*     take their own steps.                                               *)
(***************************************************************************)
EXTENDS Integers, Sequences, FiniteSets, TLC

\* ---------------------------------------------------------------- bounds
MaxClock == 1        \* datetime.now() takes values 0..MaxClock
MaxStops == 2        \* number of stop requests issued in a behaviour
MaxMessages == 3     \* agent results held by one multi-agent result
MaxMarker == 3       \* largest execution_time of a swarm or graph node result
MaxNodes == 3        \* nodes of an orchestration definition

\* ------------------------------------------------------------- universes
ExecIds == {"e1", "e2"}          \* uuid4 hex ids handed out by create_execution
Users == {"u1", "u2"}            \* authenticated user ids
OrchIds == {"o1", "o2", "o3"}    \* definitions that execute requests name
MoreOrchIds == {"o4", "o5"}      \* further stored definitions
NoAgentsMsg == "No valid agents found in orchestration"
Errors == {"agent error"}        \* str(e) of exceptions an executor raises
MissingOrch == "o9"              \* an id under which nothing is stored

None == "None"

\* messages written by the service
StoppedMsg == "Execution stopped by user"
CancelledByUserMsg == "Execution cancelled by user"
CancelledMsg == "Execution cancelled"
UnsupportedMsg == "Unsupported orchestration type"
StoreErrorMsg == "store error"

\* the orchestration table: owner and type of each stored definition
orchestration_table ==
    [o \in OrchIds \cup MoreOrchIds |->
        CASE o = "o1" -> [userId |-> "u1", type |-> "swarm"]
          [] o = "o2" -> [userId |-> "u2", type |-> "workflow"]
          [] o = "o4" -> [userId |-> "u1", type |-> "graph"]
          [] o = "o5" -> [userId |-> "u2", type |-> "agents_as_tools"]
          [] OTHER    -> [userId |-> "u1", type |-> "agent_as_tool"]]

SupportedTypes == {"swarm", "graph", "workflow", "agents_as_tools"}

VARIABLES
    records,             \* chat-record table: execution id -> stored item
    log,                 \* per execution id, the statuses put to the table, in order
    running_tasks,       \* keys of OrchestrationService.running_tasks
    cancellation_events, \* keys of OrchestrationService.cancellation_events
    evSet,               \* flag of the asyncio.Event created by the run of an id
    task,                \* executor task of an id: state and value
    waiter,              \* task wrapping cancellation_event.wait()
    runPc,               \* position of execute_orchestration for an id
    runOut,              \* how execute_orchestration ended
    runDef,              \* the orchestration handed to the background run
    cleanups,            \* number of _cleanup_execution calls made by the run
    now,                 \* value datetime.now() returns
    stops,               \* number of stop requests issued so far
    last,                \* the last stop_execution call and what it returned
    hist,                \* per id: background runs scheduled, runs started,
                         \* executor tasks created, end of the background wrapper
    ex,                  \* per id: the executor coroutine's locals
    nz                   \* _extract_and_store_multiagent_result: input and output

vars == <<records, log, running_tasks, cancellation_events, evSet, task, waiter,
          runPc, runOut, runDef, cleanups, now, stops, last, hist, ex, nz>>

\* ----------------------------------------------------------- chat records
NoRec == [present |-> FALSE, id |-> None, user_id |-> None, agent_id |-> None,
          record_type |-> None, status |-> None, end_time |-> {},
          results |-> None, error |-> None]

ChatRecord(id, agent_id, user_id, record_type, status, end_time, results, error) ==
    [present |-> TRUE, id |-> id, user_id |-> user_id, agent_id |-> agent_id,
     record_type |-> record_type, status |-> status, end_time |-> end_time,
     results |-> results, error |-> error]

\* variant: the record is found whatever the caller's key
get_chat_record_any_user(recs, user_id, id) ==
    IF recs[id].present THEN recs[id] ELSE NoRec

\* ChatRecordService.get_chat_record: looks under the caller's key, then 'public'
get_chat_record(recs, user_id, id) ==
    IF recs[id].present /\ recs[id].user_id \in {user_id, "public"}
    THEN recs[id] ELSE NoRec

\* ChatRecordService.add_chat_record: put_item replaces the stored item
add_chat_record(db, record) ==
    [recs |-> [db.recs EXCEPT ![record.id] = record],
     log  |-> [db.log EXCEPT ![record.id] = Append(@, record.status)]]

\* OrchestrationService.get_orchestration
\* variant: the definition is handed out whoever asks for it
get_orchestration_any_owner(orchestration_id, user_id) ==
    IF orchestration_id \in DOMAIN orchestration_table
    THEN orchestration_table[orchestration_id] ELSE [userId |-> None, type |-> None]

get_orchestration(orchestration_id, user_id) ==
    IF /\ orchestration_id \in DOMAIN orchestration_table
       /\ orchestration_table[orchestration_id].userId = user_id
    THEN orchestration_table[orchestration_id] ELSE [userId |-> None, type |-> None]

\* OrchestrationService._chat_record_to_execution / get_execution
get_execution(recs, execution_id, user_id) ==
    LET chat_record == get_chat_record(recs, user_id, execution_id)
    IN IF ~chat_record.present \/ chat_record.record_type # "orchestration"
       THEN NoRec ELSE chat_record

KwGet(kwargs, key, default) ==
    IF key \in DOMAIN kwargs THEN kwargs[key] ELSE default

\* variant: the errorMessage keyword is not carried into the stored record
update_execution_status_drops_error(db, execution_id, status, user_id, kwargs) ==
    LET chat_record == get_chat_record(db.recs, user_id, execution_id)
    IN IF ~chat_record.present \/ chat_record.record_type # "orchestration"
       THEN [db |-> db, ok |-> FALSE]
       ELSE [db |-> add_chat_record(db,
                      ChatRecord(chat_record.id, chat_record.agent_id,
                                 chat_record.user_id, chat_record.record_type,
                                 status,
                                 KwGet(kwargs, "endTime", chat_record.end_time),
                                 KwGet(kwargs, "results", chat_record.results),
                                 chat_record.error)),
             ok |-> TRUE]

\* OrchestrationService.update_execution_status; returns the table and the bool
update_execution_status(db, execution_id, status, user_id, kwargs) ==
    LET chat_record == get_chat_record(db.recs, user_id, execution_id)
    IN IF ~chat_record.present \/ chat_record.record_type # "orchestration"
       THEN [db |-> db, ok |-> FALSE]
       ELSE [db |-> add_chat_record(db,
                      ChatRecord(chat_record.id, chat_record.agent_id,
                                 chat_record.user_id, chat_record.record_type,
                                 status,
                                 KwGet(kwargs, "endTime", chat_record.end_time),
                                 KwGet(kwargs, "results", chat_record.results),
                                 KwGet(kwargs, "errorMessage", chat_record.error))),
             ok |-> TRUE]

\* a store write that may raise instead of writing
TryUpdate(db, execution_id, status, user_id, kwargs, raises) ==
    IF raises THEN db
    ELSE update_execution_status(db, execution_id, status, user_id, kwargs).db

NoKw == [k \in {} |-> None]

\* ------------------------------------------------------------------ tasks
NoTask == [st |-> "none", val |-> None]
TaskDone(e) == task[e].st \in {"result", "exception", "cancelled"}
TaskLive(e) == task[e].st \in {"pending", "cancelling"}

\* asyncio.Task.cancel(): a no-op on a finished task
task_cancel(t) ==
    IF t.st = "pending" THEN [t EXCEPT !.st = "cancelling"] ELSE t

\* The chat-record table outlives the process and the registry does not: a
\* service that starts may find the record of an execution whose process died
\* while it was running.
\* no executor coroutine has run; nothing was handed to the normalizer
NoEx == [pc |-> "none"]
NoNz == [pc |-> "none"]

OrphanId == "e2"
OrphanRecord ==
    ChatRecord(OrphanId, "o2", "u2", "orchestration", "running", {}, None, None)

Init ==
    /\ \E orphaned \in BOOLEAN :
          /\ records = [e \in ExecIds |->
                          IF orphaned /\ e = OrphanId THEN OrphanRecord ELSE NoRec]
          /\ log = [e \in ExecIds |->
                      IF orphaned /\ e = OrphanId
                      THEN <<"pending", "running">> ELSE <<>>]
    /\ running_tasks = {}
    /\ cancellation_events = {}
    /\ evSet = [e \in ExecIds |-> FALSE]
    /\ task = [e \in ExecIds |-> NoTask]
    /\ waiter = [e \in ExecIds |-> "none"]
    /\ runPc = [e \in ExecIds |-> "none"]
    /\ runOut = [e \in ExecIds |-> None]
    /\ runDef = [e \in ExecIds |-> None]
    /\ cleanups = [e \in ExecIds |-> 0]
    /\ now = 0
    /\ stops = 0
    /\ last = [id |-> None, user |-> None, ret |-> None]
    /\ hist = [e \in ExecIds |-> [runs |-> 0, started |-> 0, tasks |-> 0, bg |-> None]]
    /\ ex = [e \in ExecIds |-> NoEx]
    /\ nz = NoNz

\* time passes
Tick ==
    /\ now < MaxClock
    /\ now' = now + 1
    /\ UNCHANGED <<records, log, running_tasks, cancellation_events, evSet, task,
                   waiter, runPc, runOut, runDef, cleanups, stops, last, hist, ex, nz>>

\* ----------------------------------------------------- create_execution
\* variant: a new execution may be given an id already in use
FreeIds_reused == ExecIds

\* uuid4: the id of a new execution is one that no execution has
FreeIds == {e \in ExecIds : ~records[e].present /\ runPc[e] = "none"}

\* OrchestrationService.create_execution as called by the execute route: the
\* route adds execute_orchestration_in_background only when a record was made.
create_execution(orchestration_id, user_id) ==
    LET orchestration == get_orchestration(orchestration_id, user_id)
    IN IF orchestration.userId = None
       THEN UNCHANGED vars
       ELSE /\ FreeIds # {}
            /\ LET execution_id == CHOOSE e \in FreeIds : TRUE
                   db == add_chat_record([recs |-> records, log |-> log],
                            ChatRecord(execution_id, orchestration_id, user_id,
                                       "orchestration", "pending", {}, None, None))
               IN /\ records' = db.recs
                  /\ log' = db.log
                  /\ runPc' = [runPc EXCEPT ![execution_id] = "queued"]
                  /\ runDef' = [runDef EXCEPT ![execution_id] = orchestration_id]
                  /\ hist' = [hist EXCEPT ![execution_id].runs = @ + 1]
            /\ UNCHANGED <<running_tasks, cancellation_events, evSet, task, waiter,
                           runOut, cleanups, now, stops, last, ex, nz>>

\* ------------------------------------------------------- _cleanup_execution
\* variant: the whole registry is emptied
cleanup_execution_clears_all(reg, execution_id) ==
    [tasks |-> {}, events |-> {}]

\* variant: the cancellation event is left behind
cleanup_execution_keeps_event(reg, execution_id) ==
    [tasks |-> reg.tasks \ {execution_id}, events |-> reg.events]

cleanup_execution(reg, execution_id) ==
    [tasks |-> reg.tasks \ {execution_id}, events |-> reg.events \ {execution_id}]

\* variant: the event is set but its registry entry is left in place
stop_execution_keeps_event(execution_id, user_id, raises) ==
    LET execution == get_execution(records, execution_id, user_id)
        upd == update_execution_status([recs |-> records, log |-> log],
                    execution_id, "failed", user_id,
                    [endTime |-> {now}, errorMessage |-> StoppedMsg])
    IN /\ stops < MaxStops
       /\ stops' = stops + 1
       /\ IF ~execution.present
          THEN /\ last' = [id |-> execution_id, user |-> user_id, ret |-> "False"]
               /\ UNCHANGED <<records, log, running_tasks, cancellation_events,
                              evSet, task, waiter, runPc, runOut, runDef, cleanups,
                              now, hist, ex, nz>>
          ELSE /\ evSet' = IF execution_id \in cancellation_events
                           THEN [evSet EXCEPT ![execution_id] = TRUE] ELSE evSet
               /\ task' = IF execution_id \in running_tasks
                          THEN [task EXCEPT ![execution_id] = task_cancel(@)]
                          ELSE task
               /\ running_tasks' = running_tasks \ {execution_id}
               /\ records' = IF raises THEN records ELSE upd.db.recs
               /\ log' = IF raises THEN log ELSE upd.db.log
               /\ last' = [id |-> execution_id, user |-> user_id,
                           ret |-> IF raises THEN "raised"
                                   ELSE IF upd.ok THEN "True" ELSE "False"]
               /\ UNCHANGED <<cancellation_events, waiter, runPc, runOut, runDef,
                              cleanups, now, hist, ex, nz>>

\* --------------------------------------------------------- stop_execution
\* The whole of stop_execution; `raises` is whether the final store write raises.
stop_execution(execution_id, user_id, raises) ==
    LET execution == get_execution(records, execution_id, user_id)
        upd == update_execution_status([recs |-> records, log |-> log],
                    execution_id, "failed", user_id,
                    [endTime |-> {now}, errorMessage |-> StoppedMsg])
    IN /\ stops < MaxStops
       /\ stops' = stops + 1
       /\ IF ~execution.present
          THEN /\ last' = [id |-> execution_id, user |-> user_id, ret |-> "False"]
               /\ UNCHANGED <<records, log, running_tasks, cancellation_events,
                              evSet, task, waiter, runPc, runOut, runDef, cleanups,
                              now, hist, ex, nz>>
          ELSE /\ evSet' = IF execution_id \in cancellation_events
                           THEN [evSet EXCEPT ![execution_id] = TRUE] ELSE evSet
               /\ task' = IF execution_id \in running_tasks
                          THEN [task EXCEPT ![execution_id] = task_cancel(@)]
                          ELSE task
               /\ running_tasks' = running_tasks \ {execution_id}
               /\ cancellation_events' = cancellation_events \ {execution_id}
               /\ records' = IF raises THEN records ELSE upd.db.recs
               /\ log' = IF raises THEN log ELSE upd.db.log
               /\ last' = [id |-> execution_id, user |-> user_id,
                           ret |-> IF raises THEN "raised"
                                   ELSE IF upd.ok THEN "True" ELSE "False"]
               /\ UNCHANGED <<waiter, runPc, runOut, runDef, cleanups, now, hist,
                              ex, nz>>

\* ---------------------------------------------------- execute_orchestration
\* execution.userId of the execution object handed to the run
ExecUser(e) == records[e].user_id

Registry == [tasks |-> running_tasks, events |-> cancellation_events]

\* Each branch below yields the table after its writes, how the coroutine ends
\* and the number of _cleanup_execution calls it made.

\* except asyncio.CancelledError: cleanup, write "Execution cancelled", re-raise
except_cancelled(db, e, raises) ==
    [db  |-> TryUpdate(db, e, "failed", ExecUser(e),
                       [endTime |-> {now}, errorMessage |-> CancelledMsg], raises),
     out |-> IF raises THEN "StoreError" ELSE "CancelledError",
     n   |-> 1]

\* variant: the failed record does not carry the cause's message
except_exception_hides_cause(db, e, msg, exc, raises) ==
    [db  |-> TryUpdate(db, e, "failed", ExecUser(e),
                       [endTime |-> {now}, errorMessage |-> "Execution failed"],
                       raises),
     out |-> IF raises THEN "StoreError" ELSE exc,
     n   |-> 1]

\* except Exception as e: cleanup, write str(e), raise e
except_exception(db, e, msg, exc, raises) ==
    [db  |-> TryUpdate(db, e, "failed", ExecUser(e),
                       [endTime |-> {now}, errorMessage |-> msg], raises),
     out |-> IF raises THEN "StoreError" ELSE exc,
     n   |-> 1]

\* `if cancellation_event.is_set()` branch once `await task` is over: t is the
\* finished executor task.  The CancelledError raised at the end of the branch
\* is raised inside the try block and is caught by except asyncio.CancelledError.
cancel_branch(db, e, t, raises1, raises2) ==
    IF t.st = "exception"
    THEN except_exception(db, e, t.val, "Exception", raises1)
    ELSE LET h == IF raises1
                  THEN except_exception(db, e, StoreErrorMsg, "StoreError", raises2)
                  ELSE except_cancelled(
                         TryUpdate(db, e, "failed", ExecUser(e),
                                   [endTime |-> {now},
                                    errorMessage |-> CancelledByUserMsg], FALSE),
                         e, raises2)
         IN [h EXCEPT !.n = h.n + 1]

\* variant: the completed write does not pass the task's results
normal_branch_drops_results(db, e, t, raises1, raises2) ==
    CASE t.st = "result" ->
            [db  |-> TryUpdate(db, e, "completed", ExecUser(e),
                               [endTime |-> {now}], FALSE),
             out |-> "returned",
             n   |-> 1]
      [] t.st = "exception" -> except_exception(db, e, t.val, "Exception", raises1)
      [] OTHER -> except_cancelled(db, e, raises1)

\* `results = await task` and what follows it
normal_branch(db, e, t, raises1, raises2) ==
    CASE t.st = "result" ->
            IF raises1
            THEN [except_exception(db, e, StoreErrorMsg, "StoreError", raises2)
                    EXCEPT !.n = 2]
            ELSE [db  |-> TryUpdate(db, e, "completed", ExecUser(e),
                                    [endTime |-> {now}, results |-> t.val], FALSE),
                  out |-> "returned",
                  n   |-> 1]
      [] t.st = "exception" -> except_exception(db, e, t.val, "Exception", raises1)
      [] OTHER -> except_cancelled(db, e, raises1)

\* execute_orchestration_in_background: what the wrapper prints for the way
\* execute_orchestration ended; it catches CancelledError and Exception
execute_orchestration_in_background(out) ==
    CASE out = "returned" -> "completed"
      [] out = "CancelledError" -> "cancelled"
      [] OTHER -> "error"

\* the end of execute_orchestration: apply a branch's outcome
RunEnds(e, b) ==
    /\ records' = b.db.recs
    /\ log' = b.db.log
    /\ running_tasks' = cleanup_execution(Registry, e).tasks
    /\ cancellation_events' = cleanup_execution(Registry, e).events
    /\ cleanups' = [cleanups EXCEPT ![e] = @ + b.n]
    /\ runPc' = [runPc EXCEPT ![e] = "done"]
    /\ runOut' = [runOut EXCEPT ![e] = b.out]
    /\ hist' = [hist EXCEPT ![e].bg = execute_orchestration_in_background(b.out),
                            ![e].started = IF runPc[e] = "queued" THEN @ + 1 ELSE @]

\* execute_orchestration from its first line to `await asyncio.wait(...)`
execute_orchestration_start(e, raises1, raises2) ==
    /\ runPc[e] = "queued"
    /\ evSet' = [evSet EXCEPT ![e] = FALSE]
    /\ IF raises1
       THEN \* the write of status=running raises, outside the try block
            /\ cancellation_events' = cancellation_events \cup {e}
            /\ runPc' = [runPc EXCEPT ![e] = "done"]
            /\ runOut' = [runOut EXCEPT ![e] = "StoreError"]
            /\ hist' = [hist EXCEPT
                          ![e].bg = execute_orchestration_in_background("StoreError"),
                          ![e].started = @ + 1]
            /\ UNCHANGED <<records, log, running_tasks, task, waiter, cleanups>>
       ELSE LET db == TryUpdate([recs |-> records, log |-> log], e, "running",
                                ExecUser(e), NoKw, FALSE)
            IN IF orchestration_table[runDef[e]].type \in SupportedTypes
               THEN /\ records' = db.recs
                    /\ log' = db.log
                    /\ cancellation_events' = cancellation_events \cup {e}
                    /\ running_tasks' = running_tasks \cup {e}
                    /\ task' = [task EXCEPT ![e] = [st |-> "pending", val |-> None]]
                    /\ waiter' = [waiter EXCEPT ![e] = "pending"]
                    /\ runPc' = [runPc EXCEPT ![e] = "wait"]
                    /\ hist' = [hist EXCEPT ![e].started = @ + 1,
                                            ![e].tasks = @ + 1]
                    /\ UNCHANGED <<runOut, cleanups>>
               ELSE /\ RunEnds(e, except_exception(db, e, UnsupportedMsg,
                                                   "ValueError", raises2))
                    /\ UNCHANGED <<task, waiter>>
    /\ UNCHANGED <<runDef, now, stops, last, ex, nz>>

\* execute_orchestration from the return of asyncio.wait to its end, or to
\* `await task` when the cancelled executor task has not finished yet
execute_orchestration_resume(e, raises1, raises2) ==
    /\ runPc[e] = "wait"
    /\ TaskDone(e) \/ waiter[e] = "done"
    /\ IF evSet[e]
       THEN LET t == task_cancel(task[e])
            IN /\ task' = [task EXCEPT ![e] = t]
               /\ IF t.st \in {"result", "exception", "cancelled"}
                  THEN RunEnds(e, cancel_branch([recs |-> records, log |-> log],
                                                e, t, raises1, raises2))
                  ELSE /\ runPc' = [runPc EXCEPT ![e] = "await_task"]
                       /\ UNCHANGED <<records, log, running_tasks,
                                      cancellation_events, cleanups, runOut, hist>>
       ELSE /\ RunEnds(e, normal_branch([recs |-> records, log |-> log],
                                        e, task[e], raises1, raises2))
            /\ UNCHANGED task
    /\ UNCHANGED <<evSet, waiter, runDef, now, stops, last, ex, nz>>

\* execute_orchestration resumed from `await task` in the cancellation branch
execute_orchestration_await_task(e, raises1, raises2) ==
    /\ runPc[e] = "await_task"
    /\ TaskDone(e)
    /\ RunEnds(e, cancel_branch([recs |-> records, log |-> log],
                                e, task[e], raises1, raises2))
    /\ UNCHANGED <<evSet, task, waiter, runDef, now, stops, last, ex, nz>>

\* ------------------------------------------------- executor and waiter tasks
\* the result dictionary of an executor: its "type" entry tells executors apart
ExecutorResult(e) == orchestration_table[runDef[e]].type

\* the executor coroutine returns its result dictionary
executor_return(e) ==
    /\ task[e].st = "pending"
    /\ task' = [task EXCEPT ![e] = [st |-> "result", val |-> ExecutorResult(e)]]
    /\ UNCHANGED <<records, log, running_tasks, cancellation_events, evSet, waiter,
                   runPc, runOut, runDef, cleanups, now, stops, last, hist, ex, nz>>

\* the executor coroutine raises an exception
executor_raise(e, m) ==
    /\ task[e].st = "pending"
    /\ task' = [task EXCEPT ![e] = [st |-> "exception", val |-> m]]
    /\ UNCHANGED <<records, log, running_tasks, cancellation_events, evSet, waiter,
                   runPc, runOut, runDef, cleanups, now, stops, last, hist, ex, nz>>

\* variant: a workflow takes the CancelledError thrown into the invocation of
\* a node for a failure of that node and returns what it has
executor_cancelled_as_node_failure(e) ==
    /\ task[e].st = "cancelling"
    /\ IF orchestration_table[runDef[e]].type = "workflow" /\ ex[e].pc = "invoking"
       THEN LET x == ex[e]
                node_id == x.node_order[x.i]
                results == Append(x.workflow_results,
                                  [node_id |-> node_id,
                                   result |-> <<"Error: ", CancelledMsg>>,
                                   execution_time |-> <<now>>,
                                   status |-> "failed"])
            IN /\ ex' = [ex EXCEPT ![e] =
                            [x EXCEPT !.pc = "returned",
                                      !.workflow_results = results,
                                      !.execution_order = Append(@, node_id)]]
               /\ task' = [task EXCEPT ![e] =
                            [st  |-> "result",
                             val |-> [type |-> "workflow",
                                      agents_count |-> Len(x.agents),
                                      execution_order |->
                                          Append(x.execution_order, node_id),
                                      results |-> results]]]
       ELSE /\ task' = [task EXCEPT ![e] = [st |-> "cancelled", val |-> None]]
            /\ UNCHANGED ex
    /\ UNCHANGED <<records, log, running_tasks, cancellation_events, evSet, waiter,
                   runPc, runOut, runDef, cleanups, now, stops, last, hist, nz>>

\* CancelledError is thrown into the executor coroutine at its await
executor_cancelled(e) ==
    /\ task[e].st = "cancelling"
    /\ task' = [task EXCEPT ![e] = [st |-> "cancelled", val |-> None]]
    /\ UNCHANGED <<records, log, running_tasks, cancellation_events, evSet, waiter,
                   runPc, runOut, runDef, cleanups, now, stops, last, hist, ex, nz>>

\* cancellation_event.wait() returns once the event is set
waiter_wake(e) ==
    /\ waiter[e] = "pending"
    /\ evSet[e]
    /\ waiter' = [waiter EXCEPT ![e] = "done"]
    /\ UNCHANGED <<records, log, running_tasks, cancellation_events, evSet, task,
                   runPc, runOut, runDef, cleanups, now, stops, last, hist, ex, nz>>

\* ------------------------------------- _extract_and_store_multiagent_result
\* Texts are sequences of characters.
Whitespace == {" ", "\n"}
Texts == {<<>>, <<" ", "\n">>, <<" ", "a">>, <<"a", " ", "b", "\n">>, <<"b">>}

\* execution_time of a NodeResult: an int (milliseconds) in a swarm or graph
\* result; in a workflow result str(time.time()), here the digits that follow
\* the part all time stamps of one run share
IntTimes == 1..MaxMarker
StrTimes == {<<1>>, <<1, 5>>, <<2>>}
Times(kind) == IF kind = "int" THEN IntTimes ELSE StrTimes

\* str.strip()
RECURSIVE lstrip(_)
lstrip(t) == IF t # <<>> /\ t[1] \in Whitespace THEN lstrip(Tail(t)) ELSE t

RECURSIVE rstrip(_)
rstrip(t) ==
    IF t # <<>> /\ t[Len(t)] \in Whitespace
    THEN rstrip(SubSeq(t, 1, Len(t) - 1)) ELSE t

strip(t) == rstrip(lstrip(t))

\* `<` of two str values
RECURSIVE str_lt(_, _)
str_lt(a, b) ==
    IF a = <<>> THEN b # <<>>
    ELSE IF b = <<>> THEN FALSE
    ELSE IF a[1] # b[1] THEN a[1] < b[1]
    ELSE str_lt(Tail(a), Tail(b))

\* `<` of two sort keys x["execution_time"]
key_lt(kind, a, b) == IF kind = "int" THEN a < b ELSE str_lt(a, b)

\* the inner loop: one entry per agent result whose text is not blank
RECURSIVE collect_agent_results(_, _)
collect_agent_results(node_result, i) ==
    IF i > Len(node_result.agent_results) THEN <<>>
    ELSE LET message_content == node_result.agent_results[i]
             rest == collect_agent_results(node_result, i + 1)
         IN IF strip(message_content) # <<>>
            THEN <<[message |-> strip(message_content),
                    execution_time |-> node_result.execution_time]>> \o rest
            ELSE rest

\* the outer loop over result.results.items()
RECURSIVE collect_node_results(_)
collect_node_results(results) ==
    IF results = <<>> THEN <<>>
    ELSE collect_agent_results(results[1], 1) \o collect_node_results(Tail(results))

\* list.sort(key=...): stable, ascending
RECURSIVE insert_sorted(_, _, _)
insert_sorted(kind, x, s) ==
    IF s = <<>> THEN <<x>>
    ELSE IF key_lt(kind, x.execution_time, s[1].execution_time)
         THEN <<x>> \o s
         ELSE <<s[1]>> \o insert_sorted(kind, x, Tail(s))

RECURSIVE list_sort(_, _)
list_sort(kind, s) ==
    IF s = <<>> THEN <<>>
    ELSE insert_sorted(kind, s[Len(s)], list_sort(kind, SubSeq(s, 1, Len(s) - 1)))

\* variant: the collected entries are stored in the order they were collected
sorted_node_results_unsorted(kind, results) == collect_node_results(results)

\* node_results after node_results.sort(key=lambda x: x["execution_time"])
sorted_node_results(kind, results) == list_sort(kind, collect_node_results(results))

\* the ChatResponse items handed to add_chat_response, in order
chat_responses(node_results, execution_id) ==
    [i \in 1..Len(node_results) |->
        [chat_id |-> execution_id, resp_no |-> i,
         content |-> node_results[i].message]]

\* _extract_and_store_multiagent_result on the result held in nz
extract_and_store_multiagent_result ==
    /\ nz.pc = "called"
    /\ LET node_results == sorted_node_results(nz.kind, nz.results)
       IN nz' = [nz EXCEPT !.pc = "stored",
                           !.node_results = node_results,
                           !.responses = chat_responses(node_results, nz.chat_id)]
    /\ UNCHANGED <<records, log, running_tasks, cancellation_events, evSet, task,
                   waiter, runPc, runOut, runDef, cleanups, now, stops, last,
                   hist, ex>>

\* ------------------------------------------------------- execute_workflow
\* ex[e].config is the OrchestrationConfig handed to the run: nodes in declared
\* order, each with `valid` saying that it is an agent node whose agentId
\* get_agent resolves, and the taskPriorities dictionary.
NodeIds == [i \in 1..MaxNodes |-> CASE i = 1 -> "n1" [] i = 2 -> "n2"
                                     [] i = 3 -> "n3" [] OTHER -> "n4"]
PriorityValues == {-1, 1, 5}
InputMessage == <<"a">>                  \* execution.inputMessage
Outputs == {<<"b">>, <<" ", "\n">>}      \* str(result) of an agent invocation
AgentErrors == {"agent error"}           \* str(e) of what an invocation raises
ErrorText(m) == <<"Error: ", m>>         \* f"Error: {str(e)}"
TimeStr(t) == <<t>>                      \* str(time.time())

\* the nodes for which an agent was built, in declared order
RECURSIVE build_agents(_)
build_agents(nodes) ==
    IF nodes = <<>> THEN <<>>
    ELSE IF nodes[1].valid THEN <<nodes[1].id>> \o build_agents(Tail(nodes))
         ELSE build_agents(Tail(nodes))

\* the nodes a tool was built for: the orchestrator's own agent is left out
RECURSIVE build_tool_agents(_)
build_tool_agents(nodes) ==
    IF nodes = <<>> THEN <<>>
    ELSE IF nodes[1].valid /\ ~nodes[1].orch
         THEN <<nodes[1].id>> \o build_tool_agents(Tail(nodes))
         ELSE build_tool_agents(Tail(nodes))

\* orchestration.taskPriorities.get(node_id, 0)
priority(taskPriorities, node_id) ==
    IF node_id \in DOMAIN taskPriorities THEN taskPriorities[node_id] ELSE 0

\* node_order.sort(key=priority, reverse=True): stable, descending
RECURSIVE insert_by_priority(_, _, _)
insert_by_priority(tp, x, s) ==
    IF s = <<>> THEN <<x>>
    ELSE IF priority(tp, s[1]) < priority(tp, x)
         THEN <<x>> \o s
         ELSE <<s[1]>> \o insert_by_priority(tp, x, Tail(s))

RECURSIVE sort_by_priority(_, _)
sort_by_priority(tp, s) ==
    IF s = <<>> THEN <<>>
    ELSE insert_by_priority(tp, s[Len(s)],
                            sort_by_priority(tp, SubSeq(s, 1, Len(s) - 1)))

\* variant: the nodes run in declared order whatever their priorities
workflow_node_order_declared(config) == build_agents(config.nodes)

\* node_order as the loop of execute_workflow walks it
workflow_node_order(config) ==
    IF DOMAIN config.taskPriorities # {}
    THEN sort_by_priority(config.taskPriorities, build_agents(config.nodes))
    ELSE build_agents(config.nodes)

\* the locals of an executor coroutine that has reached its first statement
Locals(e, agents, node_order) ==
    [pc |-> "setup", config |-> ex[e].config, agents |-> agents,
     node_order |-> node_order, i |-> 1, current_input |-> InputMessage,
     workflow_results |-> <<>>, execution_order |-> <<>>, invoked |-> <<>>,
     responses |-> <<>>]

\* variant: a failed node makes the executor raise instead of returning
workflow_finish_raises(e, x) ==
    /\ ex' = [ex EXCEPT ![e] = [x EXCEPT !.pc = "returned"]]
    /\ task' = [task EXCEPT ![e] =
                  IF \E n \in 1..Len(x.workflow_results) :
                        x.workflow_results[n].status = "failed"
                  THEN [st |-> "exception", val |-> "agent error"]
                  ELSE [st |-> "result", val |-> [type |-> "workflow"]]]

\* after the loop: WorkflowResult, the normalizer, and the returned dictionary
workflow_finish(e, x) ==
    LET results == [n \in 1..Len(x.workflow_results) |->
                      [execution_time |-> x.workflow_results[n].execution_time,
                       agent_results |-> <<x.workflow_results[n].result>>]]
    IN /\ ex' = [ex EXCEPT ![e] =
                    [x EXCEPT !.pc = "returned",
                              !.responses = chat_responses(
                                   sorted_node_results("str", results), e)]]
       /\ task' = [task EXCEPT ![e] =
                    [st  |-> "result",
                     val |-> [type |-> "workflow",
                              agents_count |-> Len(x.agents),
                              execution_order |-> x.execution_order,
                              results |-> x.workflow_results]]]

\* the loop from its head to the next `await agent.invoke_async(current_input)`
workflow_iterate(e, x) ==
    IF x.i > Len(x.node_order)
    THEN workflow_finish(e, x)
    ELSE IF e \in cancellation_events /\ evSet[e]
         THEN \* CancelledError is not an Exception: it leaves the coroutine
              /\ ex' = [ex EXCEPT ![e] = [x EXCEPT !.pc = "cancelled"]]
              /\ task' = [task EXCEPT ![e] = [st |-> "cancelled", val |-> None]]
         ELSE /\ ex' = [ex EXCEPT ![e] =
                          [x EXCEPT !.pc = "invoking",
                                    !.invoked = Append(@,
                                        [node_id |-> x.node_order[x.i],
                                         input |-> x.current_input])]]
              /\ UNCHANGED task

\* execute_workflow from its first line to the first invocation
execute_workflow_setup(e) ==
    /\ task[e].st = "pending"
    /\ ex[e].pc = "none"
    /\ orchestration_table[runDef[e]].type = "workflow"
    /\ LET agents == build_agents(ex[e].config.nodes)
       IN IF agents = <<>>
          THEN /\ ex' = [ex EXCEPT ![e] =
                           [Locals(e, agents, <<>>) EXCEPT !.pc = "raised"]]
               /\ task' = [task EXCEPT ![e] =
                             [st |-> "exception", val |-> NoAgentsMsg]]
          ELSE workflow_iterate(e, Locals(e, agents,
                                          workflow_node_order(ex[e].config)))
    /\ UNCHANGED <<records, log, running_tasks, cancellation_events, evSet,
                   waiter, runPc, runOut, runDef, cleanups, now, stops, last,
                   hist, nz>>

\* variant: every node is handed the input the loop started with
execute_workflow_node_returns_keeps_input(e, out) ==
    /\ task[e].st = "pending"
    /\ ex[e].pc = "invoking"
    /\ orchestration_table[runDef[e]].type = "workflow"
    /\ LET x == ex[e]
           node_id == x.node_order[x.i]
       IN workflow_iterate(e,
            [x EXCEPT !.workflow_results = Append(@,
                          [node_id |-> node_id, result |-> out,
                           execution_time |-> TimeStr(now),
                           status |-> "completed"]),
                      !.execution_order = Append(@, node_id),
                      !.i = @ + 1])
    /\ UNCHANGED <<records, log, running_tasks, cancellation_events, evSet,
                   waiter, runPc, runOut, runDef, cleanups, now, stops, last,
                   hist, nz>>

\* the invocation of the current node returns `out`; on to the next node
execute_workflow_node_returns(e, out) ==
    /\ task[e].st = "pending"
    /\ ex[e].pc = "invoking"
    /\ orchestration_table[runDef[e]].type = "workflow"
    /\ LET x == ex[e]
           node_id == x.node_order[x.i]
       IN workflow_iterate(e,
            [x EXCEPT !.workflow_results = Append(@,
                          [node_id |-> node_id, result |-> out,
                           execution_time |-> TimeStr(now),
                           status |-> "completed"]),
                      !.execution_order = Append(@, node_id),
                      !.current_input = out,
                      !.i = @ + 1])
    /\ UNCHANGED <<records, log, running_tasks, cancellation_events, evSet,
                   waiter, runPc, runOut, runDef, cleanups, now, stops, last,
                   hist, nz>>

\* variant: the loop goes on to the next node after a failure
execute_workflow_node_raises_continues(e, m) ==
    /\ task[e].st = "pending"
    /\ ex[e].pc = "invoking"
    /\ orchestration_table[runDef[e]].type = "workflow"
    /\ LET x == ex[e]
           node_id == x.node_order[x.i]
       IN workflow_iterate(e,
            [x EXCEPT !.workflow_results = Append(@,
                          [node_id |-> node_id, result |-> ErrorText(m),
                           execution_time |-> TimeStr(now),
                           status |-> "failed"]),
                      !.execution_order = Append(@, node_id),
                      !.i = @ + 1])
    /\ UNCHANGED <<records, log, running_tasks, cancellation_events, evSet,
                   waiter, runPc, runOut, runDef, cleanups, now, stops, last,
                   hist, nz>>

\* the invocation of the current node raises an Exception: the loop breaks
execute_workflow_node_raises(e, m) ==
    /\ task[e].st = "pending"
    /\ ex[e].pc = "invoking"
    /\ orchestration_table[runDef[e]].type = "workflow"
    /\ LET x == ex[e]
           node_id == x.node_order[x.i]
       IN workflow_finish(e,
            [x EXCEPT !.workflow_results = Append(@,
                          [node_id |-> node_id, result |-> ErrorText(m),
                           execution_time |-> TimeStr(now),
                           status |-> "failed"]),
                      !.execution_order = Append(@, node_id)])
    /\ UNCHANGED <<records, log, running_tasks, cancellation_events, evSet,
                   waiter, runPc, runOut, runDef, cleanups, now, stops, last,
                   hist, nz>>

\* ------------------------- execute_swarm, execute_graph, execute_agents_as_tools
NoOrchestratorMsg == "No orchestrator agent specified for agents-as-tools orchestration"
OrchestratorNotFoundMsg == "Orchestrator agent not found"
NoToolsMsg == "No valid tool agents found in orchestration"

\* MultiAgentResult values that Swarm/Graph invoke_async hands back
LibraryResults ==
    {<<>>,
     <<[execution_time |-> 2, agent_results |-> << <<"b">> >>],
       [execution_time |-> 1, agent_results |-> << <<" ", "a">>, <<" ", "\n">> >>]>>}

\* the executor goes to its one await: `await <x>.invoke_async(inputMessage)`
invoke_async(e, x, callee) ==
    /\ ex' = [ex EXCEPT ![e] =
                [x EXCEPT !.pc = "invoking",
                          !.invoked = Append(@, [node_id |-> callee,
                                                 input |-> x.current_input])]]
    /\ UNCHANGED task

\* the executor coroutine ends by raising ValueError(msg) during its setup
setup_raises(e, x, msg) ==
    /\ ex' = [ex EXCEPT ![e] = [x EXCEPT !.pc = "raised"]]
    /\ task' = [task EXCEPT ![e] = [st |-> "exception", val |-> msg]]

\* variant: the Swarm is built and invoked whatever the agent list holds
execute_swarm_setup_no_check(e) ==
    /\ task[e].st = "pending"
    /\ ex[e].pc = "none"
    /\ orchestration_table[runDef[e]].type = "swarm"
    /\ invoke_async(e, Locals(e, build_agents(ex[e].config.nodes), <<>>), "swarm")
    /\ UNCHANGED <<records, log, running_tasks, cancellation_events, evSet,
                   waiter, runPc, runOut, runDef, cleanups, now, stops, last,
                   hist, nz>>

\* execute_swarm from its first line to `await swarm.invoke_async(...)`
execute_swarm_setup(e) ==
    /\ task[e].st = "pending"
    /\ ex[e].pc = "none"
    /\ orchestration_table[runDef[e]].type = "swarm"
    /\ LET agents == build_agents(ex[e].config.nodes)
           x == Locals(e, agents, <<>>)
       IN IF agents = <<>>
          THEN setup_raises(e, x, NoAgentsMsg)
          ELSE invoke_async(e, x, "swarm")
    /\ UNCHANGED <<records, log, running_tasks, cancellation_events, evSet,
                   waiter, runPc, runOut, runDef, cleanups, now, stops, last,
                   hist, nz>>

\* execute_graph from its first line to `await graph.invoke_async(...)`
execute_graph_setup(e) ==
    /\ task[e].st = "pending"
    /\ ex[e].pc = "none"
    /\ orchestration_table[runDef[e]].type = "graph"
    /\ LET agents == build_agents(ex[e].config.nodes)
           x == Locals(e, agents, <<>>)
       IN IF agents = <<>>
          THEN setup_raises(e, x, NoAgentsMsg)
          ELSE invoke_async(e, x, "graph")
    /\ UNCHANGED <<records, log, running_tasks, cancellation_events, evSet,
                   waiter, runPc, runOut, runDef, cleanups, now, stops, last,
                   hist, nz>>

\* execute_agents_as_tools from its first line to
\* `await orchestrator_agent.invoke_async(...)`
execute_agents_as_tools_setup(e) ==
    /\ task[e].st = "pending"
    /\ ex[e].pc = "none"
    /\ orchestration_table[runDef[e]].type = "agents_as_tools"
    /\ LET tools == build_tool_agents(ex[e].config.nodes)
           x == Locals(e, tools, <<>>)
       IN CASE ex[e].config.orchestratorAgent = "absent" ->
                  setup_raises(e, x, NoOrchestratorMsg)
            [] ex[e].config.orchestratorAgent = "unresolved" ->
                  setup_raises(e, x, OrchestratorNotFoundMsg)
            [] OTHER ->
                  IF tools = <<>>
                  THEN setup_raises(e, x, NoToolsMsg)
                  ELSE IF e \in cancellation_events /\ evSet[e]
                       THEN \* CancelledError passes `except Exception`
                            /\ ex' = [ex EXCEPT ![e] =
                                        [x EXCEPT !.pc = "cancelled"]]
                            /\ task' = [task EXCEPT ![e] =
                                          [st |-> "cancelled", val |-> None]]
                       ELSE invoke_async(e, x, "orchestrator")
    /\ UNCHANGED <<records, log, running_tasks, cancellation_events, evSet,
                   waiter, runPc, runOut, runDef, cleanups, now, stops, last,
                   hist, nz>>

\* Swarm/Graph invoke_async returns `result`: normalizer, returned dictionary
execute_multiagent_returns(e, result) ==
    /\ task[e].st = "pending"
    /\ ex[e].pc = "invoking"
    /\ orchestration_table[runDef[e]].type \in {"swarm", "graph"}
    /\ ex' = [ex EXCEPT ![e].pc = "returned",
                        ![e].responses = chat_responses(
                              sorted_node_results("int", result), e)]
    /\ task' = [task EXCEPT ![e] =
                  [st  |-> "result",
                   val |-> [type |-> orchestration_table[runDef[e]].type,
                            agents_count |-> Len(ex[e].agents)]]]
    /\ UNCHANGED <<records, log, running_tasks, cancellation_events, evSet,
                   waiter, runPc, runOut, runDef, cleanups, now, stops, last,
                   hist, nz>>

\* the orchestrator's invoke_async returns `out`
execute_agents_as_tools_returns(e, out) ==
    /\ task[e].st = "pending"
    /\ ex[e].pc = "invoking"
    /\ orchestration_table[runDef[e]].type = "agents_as_tools"
    /\ ex' = [ex EXCEPT ![e].pc = "returned",
                        ![e].responses = chat_responses(
                              sorted_node_results("int",
                                 <<[execution_time |-> 0,
                                    agent_results |-> <<out>>]>>), e)]
    /\ task' = [task EXCEPT ![e] =
                  [st  |-> "result",
                   val |-> [type |-> "agents_as_tools",
                            tool_agents_count |-> Len(ex[e].agents),
                            result |-> [orchestrator_result |-> out,
                                        execution_time |-> TimeStr(now)]]]]
    /\ UNCHANGED <<records, log, running_tasks, cancellation_events, evSet,
                   waiter, runPc, runOut, runDef, cleanups, now, stops, last,
                   hist, nz>>

\* the one invoke_async of a swarm, graph or agents-as-tools executor raises
\* an Exception, which leaves the executor coroutine
execute_invoke_raises(e, m) ==
    /\ task[e].st = "pending"
    /\ ex[e].pc = "invoking"
    /\ orchestration_table[runDef[e]].type \in {"swarm", "graph", "agents_as_tools"}
    /\ ex' = [ex EXCEPT ![e].pc = "raised"]
    /\ task' = [task EXCEPT ![e] = [st |-> "exception", val |-> m]]
    /\ UNCHANGED <<records, log, running_tasks, cancellation_events, evSet,
                   waiter, runPc, runOut, runDef, cleanups, now, stops, last,
                   hist, nz>>

\* ------------------------------------------------------------ specification
\* the stores answer every call
Next ==
    \/ Tick
    \/ \E o \in OrchIds \cup {MissingOrch}, u \in Users : create_execution(o, u)
    \/ \E e \in ExecIds, u \in Users : stop_execution(e, u, FALSE)
    \/ \E e \in ExecIds : execute_orchestration_start(e, FALSE, FALSE)
    \/ \E e \in ExecIds : execute_orchestration_resume(e, FALSE, FALSE)
    \/ \E e \in ExecIds : execute_orchestration_await_task(e, FALSE, FALSE)
    \/ \E e \in ExecIds : executor_return(e)
    \/ \E e \in ExecIds, m \in Errors : executor_raise(e, m)
    \/ \E e \in ExecIds : executor_cancelled(e)
    \/ \E e \in ExecIds : waiter_wake(e)

Spec == Init /\ [][Next]_vars

\* a write to the chat-record table may raise
NextStoreFail ==
    \/ Tick
    \/ \E o \in OrchIds \cup {MissingOrch}, u \in Users : create_execution(o, u)
    \/ \E e \in ExecIds, u \in Users, f \in BOOLEAN : stop_execution(e, u, f)
    \/ \E e \in ExecIds, f1, f2 \in BOOLEAN : execute_orchestration_start(e, f1, f2)
    \/ \E e \in ExecIds, f1, f2 \in BOOLEAN : execute_orchestration_resume(e, f1, f2)
    \/ \E e \in ExecIds, f1, f2 \in BOOLEAN :
          execute_orchestration_await_task(e, f1, f2)
    \/ \E e \in ExecIds : executor_return(e)
    \/ \E e \in ExecIds, m \in Errors : executor_raise(e, m)
    \/ \E e \in ExecIds : executor_cancelled(e)
    \/ \E e \in ExecIds : waiter_wake(e)

SpecStoreFail == Init /\ [][NextStoreFail]_vars

\* The executors step by step, under the supervisor: one execution has been
\* created from a definition within the bounds and its run is queued.
ExecutorId == "e1"

NodeLists == UNION {[1..n -> BOOLEAN] : n \in 1..MaxNodes}

\* which nodes carry the agent id that orchestratorAgent names: none unless
\* the definition is for agents-as-tools
OrchFlags(type, n) ==
    IF type = "agents_as_tools" THEN [1..n -> BOOLEAN]
    ELSE {[i \in 1..n |-> FALSE]}

\* A node is `valid` when it is of type agent and its agentId resolves in the
\* agent store, `orch` when its agentId is the one orchestratorAgent names.
\* orchestratorAgent is absent, or an id the agent store does not hold
\* ("unresolved"), or one it holds ("found").
Configs(type) ==
    UNION {
      {[nodes |-> [i \in 1..Len(v) |->
                     [id |-> NodeIds[i], valid |-> v[i], orch |-> w[i]]],
        taskPriorities |-> tp, orchestratorAgent |-> oa] :
          w \in OrchFlags(type, Len(v)),
          tp \in IF type = "workflow"
                 THEN UNION {[S -> PriorityValues] :
                                S \in SUBSET {NodeIds[i] : i \in 1..MaxNodes}}
                 ELSE {<<>>},
          oa \in IF type = "agents_as_tools"
                 THEN {"absent", "unresolved", "found"} ELSE {"absent"}} :
      v \in NodeLists}

\* no node carries an absent id, and an id that the agent store does not hold
\* resolves for no node
ConsistentConfig(config) ==
    \A i \in 1..Len(config.nodes) :
        config.nodes[i].orch =>
            /\ config.orchestratorAgent # "absent"
            /\ config.orchestratorAgent = "unresolved" => ~config.nodes[i].valid

InitExecutor ==
    \E o \in {"o1", "o2", "o4", "o5"} :
      \E config \in Configs(orchestration_table[o].type) :
        /\ DOMAIN config.taskPriorities \subseteq
              {config.nodes[i].id : i \in 1..Len(config.nodes)}
        /\ ConsistentConfig(config)
        /\ records = [e \in ExecIds |->
              IF e = ExecutorId
              THEN ChatRecord(e, o, orchestration_table[o].userId,
                              "orchestration", "pending", {}, None, None)
              ELSE NoRec]
        /\ log = [e \in ExecIds |->
                    IF e = ExecutorId THEN <<"pending">> ELSE <<>>]
        /\ running_tasks = {}
        /\ cancellation_events = {}
        /\ evSet = [e \in ExecIds |-> FALSE]
        /\ task = [e \in ExecIds |-> NoTask]
        /\ waiter = [e \in ExecIds |-> "none"]
        /\ runPc = [e \in ExecIds |-> IF e = ExecutorId THEN "queued" ELSE "none"]
        /\ runOut = [e \in ExecIds |-> None]
        /\ runDef = [e \in ExecIds |-> IF e = ExecutorId THEN o ELSE None]
        /\ cleanups = [e \in ExecIds |-> 0]
        /\ now = 0
        /\ stops = 0
        /\ last = [id |-> None, user |-> None, ret |-> None]
        /\ hist = [e \in ExecIds |->
                     [runs |-> IF e = ExecutorId THEN 1 ELSE 0,
                      started |-> 0, tasks |-> 0, bg |-> None]]
        /\ ex = [e \in ExecIds |->
                   IF e = ExecutorId THEN [pc |-> "none", config |-> config]
                   ELSE NoEx]
        /\ nz = NoNz

NextExecutor ==
    \/ Tick
    \/ \E e \in ExecIds : execute_orchestration_start(e, FALSE, FALSE)
    \/ \E e \in ExecIds : execute_orchestration_resume(e, FALSE, FALSE)
    \/ \E e \in ExecIds : execute_workflow_setup(e)
    \/ \E e \in ExecIds, out \in Outputs : execute_workflow_node_returns(e, out)
    \/ \E e \in ExecIds, m \in AgentErrors : execute_workflow_node_raises(e, m)
    \/ \E e \in ExecIds : execute_swarm_setup(e)
    \/ \E e \in ExecIds : execute_graph_setup(e)
    \/ \E e \in ExecIds : execute_agents_as_tools_setup(e)
    \/ \E e \in ExecIds, r \in LibraryResults : execute_multiagent_returns(e, r)
    \/ \E e \in ExecIds, out \in Outputs : execute_agents_as_tools_returns(e, out)
    \/ \E e \in ExecIds, m \in AgentErrors : execute_invoke_raises(e, m)

SpecExecutor == InitExecutor /\ [][NextExecutor]_vars

\* The executors under the supervisor with stop requests arriving at any
\* point of the run; the definitions carry no task priorities.
InitCancel ==
    /\ InitExecutor
    /\ ex[ExecutorId].config.taskPriorities = <<>>

NextCancel ==
    \/ \E e \in ExecIds : execute_orchestration_start(e, FALSE, FALSE)
    \/ \E e \in ExecIds : execute_orchestration_resume(e, FALSE, FALSE)
    \/ \E e \in ExecIds : execute_orchestration_await_task(e, FALSE, FALSE)
    \/ \E e \in ExecIds, u \in Users : stop_execution(e, u, FALSE)
    \/ \E e \in ExecIds : executor_cancelled(e)
    \/ \E e \in ExecIds : waiter_wake(e)
    \/ \E e \in ExecIds : execute_workflow_setup(e)
    \/ \E e \in ExecIds, out \in Outputs : execute_workflow_node_returns(e, out)
    \/ \E e \in ExecIds, m \in AgentErrors : execute_workflow_node_raises(e, m)
    \/ \E e \in ExecIds : execute_swarm_setup(e)
    \/ \E e \in ExecIds : execute_graph_setup(e)
    \/ \E e \in ExecIds : execute_agents_as_tools_setup(e)
    \/ \E e \in ExecIds, r \in LibraryResults : execute_multiagent_returns(e, r)
    \/ \E e \in ExecIds, out \in Outputs : execute_agents_as_tools_returns(e, out)
    \/ \E e \in ExecIds, m \in AgentErrors : execute_invoke_raises(e, m)

SpecCancel == InitCancel /\ [][NextCancel]_vars

\* the result normalizer alone, on every multi-agent result within the bounds
\* result.results built from its agent results listed in iteration order; an
\* agent result marked `same` belongs to the node result of the one before it
RECURSIVE NodeResultsOf(_)
NodeResultsOf(f) ==
    IF f = <<>> THEN <<>>
    ELSE LET g == NodeResultsOf(SubSeq(f, 1, Len(f) - 1))
             a == f[Len(f)]
         IN IF a.same
            THEN [g EXCEPT ![Len(g)].agent_results = Append(@, a.text)]
            ELSE Append(g, [execution_time |-> a.time, agent_results |-> <<a.text>>])

AgentResults(kind) == [text : Texts, time : Times(kind), same : BOOLEAN]

\* agent results of one node result share the node's execution_time
SameNodeSameTime(f) ==
    \A i \in 1..Len(f) : f[i].same => i > 1 /\ f[i].time = f[i - 1].time

InitNormalizer ==
    /\ records = [e \in ExecIds |-> NoRec]
    /\ log = [e \in ExecIds |-> <<>>]
    /\ running_tasks = {}
    /\ cancellation_events = {}
    /\ evSet = [e \in ExecIds |-> FALSE]
    /\ task = [e \in ExecIds |-> NoTask]
    /\ waiter = [e \in ExecIds |-> "none"]
    /\ runPc = [e \in ExecIds |-> "none"]
    /\ runOut = [e \in ExecIds |-> None]
    /\ runDef = [e \in ExecIds |-> None]
    /\ cleanups = [e \in ExecIds |-> 0]
    /\ now = 0
    /\ stops = 0
    /\ last = [id |-> None, user |-> None, ret |-> None]
    /\ hist = [e \in ExecIds |-> [runs |-> 0, started |-> 0, tasks |-> 0, bg |-> None]]
    /\ ex = [e \in ExecIds |-> NoEx]
    /\ \E kind \in {"int", "str"}, n \in 0..MaxMessages :
          \E f \in [1..n -> AgentResults(kind)] :
             /\ SameNodeSameTime(f)
             /\ nz = [pc |-> "called", kind |-> kind, chat_id |-> "e1",
                      results |-> NodeResultsOf(f),
                      node_results |-> <<>>, responses |-> <<>>]

NextNormalizer == extract_and_store_multiagent_result

SpecNormalizer == InitNormalizer /\ [][NextNormalizer]_vars

\* ================================================================== claims
Registered(e) == e \in running_tasks \cup cancellation_events
Terminal(status) == status \in {"completed", "failed"}
Rank(status) ==
    CASE status = "pending" -> 0
      [] status = "running" -> 1
      [] OTHER -> 2

\* C1: the statuses written for an execution only move forward along
\* pending -> running -> {completed, failed}: no write moves a record backward
\* or from one terminal status to the other, and a run that has started has
\* written running.
C1_StatusMonotonic ==
    \A e \in ExecIds :
        /\ \A i \in 1..(Len(log[e]) - 1) :
              \/ log[e][i] = log[e][i + 1]
              \/ Rank(log[e][i]) < Rank(log[e][i + 1])
        /\ runPc[e] \in {"wait", "await_task", "done"} =>
              \E i \in 1..Len(log[e]) : log[e][i] = "running"

\* C2: once a terminal status has been written for an execution, the record is
\* not written again: a terminal write is the last write of its record.
C2_TerminalWrittenOnce ==
    \A e \in ExecIds : \A i \in 1..Len(log[e]) :
        Terminal(log[e][i]) => i = Len(log[e])

\* C3: when stop_execution cancelled the executor task in flight, then once the
\* run has finished the record is failed with errorMessage "Execution stopped
\* by user", endTime is set and no live task or registry entry remains.
C3_StopInFlightFinalRecord ==
    \A e \in ExecIds :
        (runPc[e] = "done" /\ task[e].st = "cancelled") =>
            /\ records[e].status = "failed"
            /\ records[e].error = StoppedMsg
            /\ records[e].end_time # {}
            /\ ~TaskLive(e)
            /\ ~Registered(e)

\* C4: after execute_orchestration has returned or raised, its execution id is
\* in neither running_tasks nor cancellation_events.
C4_RegistryEmptyAfterRun ==
    \A e \in ExecIds : runPc[e] = "done" => ~Registered(e)

\* C4 witness: two cycles are over, one completed and one cancelled through
\* stop_execution, and the registry is empty.
C4_Witness ==
    \E a, b \in ExecIds :
        /\ runPc[a] = "done" /\ runOut[a] = "returned"
        /\ runPc[b] = "done" /\ runOut[b] = "CancelledError"
        /\ task[b].st = "cancelled"
        /\ running_tasks = {} /\ cancellation_events = {}

\* C5: at every suspension point an execution id is in the registry if and
\* only if its executor task is created and not yet finished.
C5_RegistryIffTaskLive ==
    \A e \in ExecIds : Registered(e) <=> TaskLive(e)

\* C6: when execute_orchestration is over, also when a store write raised, the
\* registry entry is gone and the cleanup ran exactly once.
C6_CleanupOnEveryPath ==
    \A e \in ExecIds :
        runPc[e] = "done" => (~Registered(e) /\ cleanups[e] = 1)

\* C7: stop_execution on a visible execution that is not in the registry
\* returns true and leaves the record failed with "Execution stopped by user".
C7_StopSelfHeals ==
    [][(/\ stops' = stops + 1
        /\ last'.id \notin running_tasks \cup cancellation_events
        /\ get_execution(records, last'.id, last'.user).present)
       => (/\ last'.ret = "True"
           /\ records'[last'.id].status = "failed"
           /\ records'[last'.id].error = StoppedMsg)]_vars

\* C7 witness: stop_execution healed a record left running by a dead process,
\* and was called on an execution whose run had completed and cleaned up.
C7_Witness ==
    \E a, b \in ExecIds :
        /\ last.id \in {a, b} /\ last.ret = "True"
        /\ runPc[a] = "none" /\ log[a] = <<"pending", "running", "failed">>
        /\ records[a].status = "failed" /\ records[a].error = StoppedMsg
        /\ runPc[b] = "done" /\ runOut[b] = "returned"
        /\ log[b] = <<"pending", "running", "completed", "failed">>
        /\ records[b].status = "failed" /\ records[b].error = StoppedMsg

\* the state a successful stop_execution call leaves an execution in
AsLeftByStop(e) ==
    /\ ~Registered(e)
    /\ records[e].status = "failed"
    /\ records[e].error = StoppedMsg

\* C8: a repeated stop_execution call on an execution that a stop call already
\* stopped returns true and changes nothing: registry, signal, task and the
\* stored record (status, errorMessage, results, endTime) stay as they were.
C8_StopIdempotent ==
    [][(/\ stops' = stops + 1
        /\ last.ret = "True"
        /\ last'.id = last.id /\ last'.user = last.user
        /\ AsLeftByStop(last.id))
       => (/\ last'.ret = "True"
           /\ running_tasks' = running_tasks
           /\ cancellation_events' = cancellation_events
           /\ evSet' = evSet
           /\ task' = task
           /\ records'[last.id] = records[last.id])]_vars

\* C9: when the run resumed with the executor task already finished and the
\* cancellation signal set, the record ends failed with a user-cancellation
\* message and never held completed or the task's results.
C9_TieObservesCancellation ==
    \A e \in ExecIds :
        (runPc[e] = "done" /\ evSet[e] /\ task[e].st \in {"result", "exception"}) =>
            /\ records[e].status = "failed"
            /\ records[e].error \in {CancelledByUserMsg, StoppedMsg}
            /\ records[e].results = None
            /\ \A i \in 1..Len(log[e]) : log[e][i] # "completed"

\* C10: when the run resumes with the signal not set, a returned result is
\* written as completed with results and endTime and nothing else changed
\* (no errorMessage written); a raised exception is written as failed with the
\* exception's message and endTime and nothing else changed (no results
\* written); each is a single write.
C10_NormalCompletionWrites ==
    [][\A e \in ExecIds :
        (runPc[e] = "wait" /\ runPc'[e] = "done" /\ ~evSet[e]) =>
            /\ task[e].st = "result" =>
                 /\ records'[e] = [records[e] EXCEPT !.status = "completed",
                                                     !.results = task[e].val,
                                                     !.end_time = {now}]
                 /\ log'[e] = Append(log[e], "completed")
                 /\ runOut'[e] = "returned"
            /\ task[e].st = "exception" =>
                 /\ records'[e] = [records[e] EXCEPT !.status = "failed",
                                                     !.error = task[e].val,
                                                     !.end_time = {now}]
                 /\ log'[e] = Append(log[e], "failed")
                 /\ runOut'[e] = "Exception"]_vars

\* C10 witness: one run completed and stored its result, another run's executor
\* raised and its message was stored, neither with a stop.
C10_Witness ==
    \E a, b \in ExecIds :
        /\ runOut[a] = "returned" /\ ~evSet[a]
        /\ records[a].status = "completed"
        /\ records[a].results = ExecutorResult(a)
        /\ records[a].end_time # {}
        /\ records[a].error = None
        /\ runOut[b] = "Exception" /\ ~evSet[b]
        /\ records[b].status = "failed"
        /\ records[b].error \in Errors
        /\ records[b].end_time # {}
        /\ records[b].results = None

\* the run of e ends in this step
RunEndsNow(e) == runPc[e] # "done" /\ runPc'[e] = "done"

\* ways execute_orchestration hands an exception to its caller
Raised == {"Exception", "ValueError", "StoreError", "CancelledError"}

\* C11 as stated: when the executor task raised, the run writes the record
\* failed with the cause's message and the exception is not propagated out of
\* execute_orchestration to its caller.
C11_NotPropagatedOutOfRun ==
    [][\A e \in ExecIds :
         (RunEndsNow(e) /\ task[e].st = "exception")
            => /\ records'[e].status = "failed"
               /\ records'[e].error = task[e].val
               /\ runOut'[e] \notin Raised]_vars

\* C11 amended: when the executor task raised, the run writes the record
\* failed with the cause's message and re-raises the exception out of
\* execute_orchestration; execute_orchestration_in_background catches it, so
\* it never leaves the background task.
C11_ErrorRecordedAndCaught ==
    [][\A e \in ExecIds :
         (RunEndsNow(e) /\ task[e].st = "exception")
            => /\ records'[e].status = "failed"
               /\ records'[e].error = task[e].val
               /\ records'[e].end_time # {}
               /\ runOut'[e] = "Exception"
               /\ hist'[e].bg = "error"]_vars

C11_Witness ==
    \E e \in ExecIds :
        /\ runPc[e] = "done"
        /\ task[e] = [st |-> "exception", val |-> "agent error"]
        /\ records[e].status = "failed"
        /\ records[e].error = "agent error"
        /\ runOut[e] = "Exception"
        /\ hist[e].bg = "error"

\* the run of e is over and ended on a validation failure: the unsupported
\* topology type, or the ValueError of an executor's setup phase
ValidationFailed(e) ==
    /\ runPc[e] = "done"
    /\ \/ runOut[e] = "ValueError"
       \/ task[e] = [st |-> "exception", val |-> NoAgentsMsg]

\* C12: a validation failure is raised before the record is ever written as
\* running, and the record that was created ends failed instead of staying
\* pending.
C12_ValidationBeforeRunning ==
    \A e \in ExecIds :
        ValidationFailed(e)
            => /\ records[e].status = "failed"
               /\ \A i \in 1..Len(log[e]) : log[e][i] # "running"

\* what create_execution must leave alone: registry, signals and tasks
RunState == <<running_tasks, cancellation_events, evSet, task, waiter>>

\* C13: a record appears only for a definition that exists and is owned by the
\* caller; the step that makes it writes that one record, with status pending,
\* and starts nothing: no registry entry, no executor task; the run is only
\* queued, once.
C13_CreateWritesPendingOnly ==
    [][\A e \in ExecIds :
         (~records[e].present /\ records'[e].present)
            => /\ records'[e].agent_id \in DOMAIN orchestration_table
               /\ orchestration_table[records'[e].agent_id].userId
                      = records'[e].user_id
               /\ records'[e].id = e
               /\ records'[e].status = "pending"
               /\ records'[e].end_time = {}
               /\ log'[e] = <<"pending">>
               /\ \A o \in ExecIds \ {e} : records'[o] = records[o]
               /\ RunState' = RunState
               /\ ~Registered(e)' /\ task'[e] = NoTask
               /\ runPc'[e] = "queued" /\ hist'[e].runs = 1
               /\ hist'[e].started = 0 /\ hist'[e].tasks = 0]_vars

\* a created execution whose run has been queued and has not started
C13_Witness ==
    \E e \in ExecIds :
        /\ records[e].status = "pending"
        /\ log[e] = <<"pending">>
        /\ runPc[e] = "queued"
        /\ ~Registered(e) /\ task[e] = NoTask
        /\ hist[e] = [runs |-> 1, started |-> 0, tasks |-> 0, bg |-> None]

\* this step is a stop_execution call for an id its caller cannot see
StopNotVisible ==
    /\ stops' = stops + 1
    /\ \/ ~records[last'.id].present
       \/ records[last'.id].user_id \notin {last'.user, "public"}

\* C14: stop_execution by a caller to whom the id is not visible returns false
\* and changes nothing: registry, signal, task, record and run of every
\* execution stay as they were.
C14_StopNotVisibleNoEffect ==
    [][StopNotVisible
          => /\ last'.ret = "False"
             /\ UNCHANGED <<records, log, running_tasks, cancellation_events,
                            evSet, task, waiter, runPc, runOut, cleanups>>]_vars

\* another user's stop was turned down while the execution is in flight
C14_Witness ==
    /\ last.ret = "False"
    /\ last.id \in ExecIds
    /\ records[last.id].present
    /\ records[last.id].user_id # last.user
    /\ records[last.id].status = "running"
    /\ last.id \in running_tasks \cap cancellation_events
    /\ ~evSet[last.id]
    /\ task[last.id].st = "pending"

\* the run of e has been entered / is suspended at one of its awaits
RunStarted(e) == runPc[e] \in {"wait", "await_task", "done"}
RunInFlight(e) == runPc[e] \in {"wait", "await_task"}

\* the background run is queued once per created execution and entered at
\* most once; an executor task exists only if the run created it
OneRunPerExecution(e) ==
    /\ hist[e].runs = IF runPc[e] = "none" THEN 0 ELSE 1
    /\ hist[e].started = IF RunStarted(e) THEN 1 ELSE 0
    /\ hist[e].tasks <= hist[e].started
    /\ task[e] # NoTask => hist[e].tasks = 1
    /\ RunInFlight(e) => TaskLive(e) \/ TaskDone(e)

Of(e) == <<records[e], log[e], e \in running_tasks, e \in cancellation_events,
           evSet[e], task[e], waiter[e]>>

Untouched(e) == Of(e)' = Of(e)

\* C16: a stop_execution call for one id, a step of the run of one id and the
\* status writes they make leave every other id's registry entry, signal,
\* tasks and stored record as they were; no step changes two executions.
C16_ExecutionsIndependent ==
    [][/\ stops' = stops + 1 => \A b \in ExecIds \ {last'.id} : Untouched(b)
       /\ \A a \in ExecIds :
             (runPc'[a] # runPc[a] \/ hist'[a] # hist[a])
                => \A b \in ExecIds \ {a} : Untouched(b)
       /\ \A a, b \in ExecIds :
             (a # b /\ ~Untouched(a)) => Untouched(b)]_vars

\* one execution was stopped and its run has ended, while the other is still
\* registered, running and not signalled
C16_Witness ==
    \E a, b \in ExecIds :
        /\ a # b
        /\ last.id = a /\ last.ret = "True"
        /\ runPc[a] = "done" /\ evSet[a] /\ ~Registered(a)
        /\ records[a].status = "failed"
        /\ RunInFlight(b) /\ task[b].st = "pending" /\ ~evSet[b]
        /\ b \in running_tasks \cap cancellation_events
        /\ records[b].status = "running"

\* a text that is empty or holds nothing but whitespace
Blank(t) == \A i \in 1..Len(t) : t[i] \in Whitespace

\* the agent results handed to the normalizer, by node and place in the node
InputPlaces ==
    {p \in (1..Len(nz.results)) \X (1..MaxMessages) :
        p[2] <= Len(nz.results[p[1]].agent_results)}
InputText(p) == nz.results[p[1]].agent_results[p[2]]
InputTime(p) == nz.results[p[1]].execution_time
KeptPlaces == {p \in InputPlaces : ~Blank(InputText(p))}

\* the point in time an execution-time marker stands for
TimeValue(t) ==
    IF nz.kind = "int" THEN t
    ELSE 10 * t[1] + (IF Len(t) > 1 THEN t[2] ELSE 0)

\* C17: the normalizer drops the texts that are empty or whitespace-only and
\* keeps every other one (stripped), orders what it keeps ascending by
\* execution-time marker, and numbers the stored responses 1..n in that order.
C17_NormalizerFiltersSortsNumbers ==
    nz.pc = "stored" =>
        /\ Len(nz.node_results) = Cardinality(KeptPlaces)
        /\ \A p \in KeptPlaces :
              Cardinality({q \in KeptPlaces :
                             /\ strip(InputText(q)) = strip(InputText(p))
                             /\ InputTime(q) = InputTime(p)})
                = Cardinality({i \in 1..Len(nz.node_results) :
                                 nz.node_results[i] =
                                    [message |-> strip(InputText(p)),
                                     execution_time |-> InputTime(p)]})
        /\ \A i, j \in 1..Len(nz.node_results) :
              i < j => TimeValue(nz.node_results[i].execution_time)
                          <= TimeValue(nz.node_results[j].execution_time)
        /\ Len(nz.responses) = Len(nz.node_results)
        /\ \A i \in 1..Len(nz.responses) :
              /\ nz.responses[i].resp_no = i
              /\ nz.responses[i].chat_id = nz.chat_id
              /\ nz.responses[i].content = nz.node_results[i].message
              /\ ~Blank(nz.responses[i].content)

\* node results with markers 3, 1, 2 were stored in the order 1, 2, 3
C17_Witness ==
    /\ nz.pc = "stored"
    /\ nz.kind = "int"
    /\ Len(nz.results) = 3
    /\ [n \in 1..3 |-> nz.results[n].execution_time] = <<3, 1, 2>>
    /\ [i \in 1..Len(nz.node_results) |-> nz.node_results[i].execution_time]
          = <<1, 2, 3>>
    /\ [i \in 1..Len(nz.responses) |-> nz.responses[i].resp_no] = <<1, 2, 3>>
    /\ nz.results[1].agent_results = << <<" ", "a">> >>
    /\ nz.responses[3].content = <<"a">>

\* e is a workflow execution whose executor has got past its setup
IsWorkflow(e) ==
    /\ runDef[e] # None
    /\ orchestration_table[runDef[e]].type = "workflow"
WorkflowRuns(e) == IsWorkflow(e) /\ ex[e].pc \in {"invoking", "returned", "cancelled"}

\* by the definition handed to the run: the nodes an agent exists for, the
\* place of a node in the declared list, its priority (0 when none is given),
\* and "a runs before b"
ValidNodes(e) ==
    {ex[e].config.nodes[i].id :
        i \in {j \in 1..Len(ex[e].config.nodes) : ex[e].config.nodes[j].valid}}
Declared(e, n) ==
    CHOOSE i \in 1..Len(ex[e].config.nodes) : ex[e].config.nodes[i].id = n
GivenPriority(e, n) ==
    IF n \in DOMAIN ex[e].config.taskPriorities
    THEN ex[e].config.taskPriorities[n] ELSE 0
RunsBefore(e, a, b) ==
    \/ GivenPriority(e, a) > GivenPriority(e, b)
    \/ GivenPriority(e, a) = GivenPriority(e, b) /\ Declared(e, a) < Declared(e, b)

NodeFailed(e) ==
    /\ WorkflowRuns(e)
    /\ \E k \in 1..Len(ex[e].workflow_results) :
          ex[e].workflow_results[k].status = "failed"

\* the ids that the invocations of e were made for, in order
InvokedNodes(e) == [k \in 1..Len(ex[e].invoked) |-> ex[e].invoked[k].node_id]

IsSingleInvoke(e) ==
    /\ runDef[e] # None
    /\ orchestration_table[runDef[e]].type \in {"swarm", "graph", "agents_as_tools"}

IsAgentsAsTools(e) ==
    /\ runDef[e] # None
    /\ orchestration_table[runDef[e]].type = "agents_as_tools"

\* some node of the definition carries the id that orchestratorAgent names
OrchestratorAmongNodes(e) ==
    \E i \in 1..Len(ex[e].config.nodes) : ex[e].config.nodes[i].orch

IsSwarm(e) ==
    /\ runDef[e] # None
    /\ orchestration_table[runDef[e]].type = "swarm"

\* C24: a swarm whose definition has no node that resolves to an agent raises
\* "No valid agents found in orchestration" in its first lines: nothing was
\* invoked and no transcript entry was written, and the run ends with the
\* record failed and that message.
C24_SwarmFailsFastWithoutAgents ==
    \A e \in ExecIds :
        (IsSwarm(e) /\ ValidNodes(e) = {}) =>
            /\ ex[e].pc \in {"none", "raised"}
            /\ ex[e].pc = "raised" =>
                  /\ ex[e].invoked = <<>>
                  /\ ex[e].responses = <<>>
                  /\ task[e].st = "exception"
                  /\ task[e].val = NoAgentsMsg
            /\ runPc[e] = "done" =>
                  /\ ex[e].pc = "raised"
                  /\ records[e].status = "failed"
                  /\ records[e].error = NoAgentsMsg
                  /\ records[e].results = None
                  /\ log[e] = <<"pending", "running", "failed">>

\* the run of a swarm of two nodes, neither of which resolves, has ended
C24_Witness ==
    \E e \in ExecIds :
        /\ IsSwarm(e)
        /\ Len(ex[e].config.nodes) = 2
        /\ ValidNodes(e) = {}
        /\ ex[e].pc = "raised"
        /\ runPc[e] = "done"
        /\ records[e].status = "failed"

\* the number of agent invocations that the locals x of an executor show
InvocationsOf(x) == IF x.pc = "none" THEN 0 ELSE Len(x.invoked)

\* the latest call of stop_execution was for e and returned true
StopReturnedTrue(e) == last.id = e /\ last.ret = "True"

\* C26: after stop_execution has returned true for an execution, no step
\* invokes an agent of that execution and none writes its record as running or
\* completed, also when the stop came while the record was still pending.
C26_NothingRunsAfterStop ==
    [][\A e \in ExecIds :
         StopReturnedTrue(e) =>
            /\ InvocationsOf(ex'[e]) = InvocationsOf(ex[e])
            /\ records'[e].status \notin {"running", "completed"}]_vars

\* C27: an event that cancellation_events holds is never set, since
\* stop_execution sets the event and removes its entry in one step; so the
\* checks of the registry inside execute_workflow and execute_agents_as_tools
\* never find a set event (no executor is at "cancelled", where only those
\* checks lead), and an executor task is cancelled only by having been asked to.
C27_RegisteredEventsUnset ==
    \A e \in ExecIds :
        /\ e \in cancellation_events => ~evSet[e]
        /\ ex[e].pc # "cancelled"
        /\ task[e].st = "cancelled" => (evSet[e] /\ e \notin running_tasks)

\* a workflow stopped while its second node was being invoked: the event is
\* set and out of the registry, the task was cancelled at its await
C27_Witness ==
    \E e \in ExecIds :
        /\ IsWorkflow(e)
        /\ evSet[e]
        /\ e \notin cancellation_events
        /\ ex[e].pc = "invoking"
        /\ Len(ex[e].invoked) = 2
        /\ task[e].st = "cancelled"

\* C28: every stored execution record is consistent with its status: completed
\* has results and no errorMessage, failed has an errorMessage, pending and
\* running have no endTime.
C28_RecordConsistent ==
    \A e \in ExecIds :
        records[e].present =>
            /\ records[e].status = "completed" =>
                  /\ records[e].results # None
                  /\ records[e].error = None
            /\ records[e].status = "failed" => records[e].error # None
            /\ records[e].status \in {"pending", "running"} =>
                  records[e].end_time = {}

\* C29: once execute_orchestration has returned or raised, neither task it
\* created is still pending: the executor task and the task that waits for
\* the cancellation event have finished or been cancelled.
C29_NoTaskOutlivesRun ==
    \A e \in ExecIds :
        runPc[e] = "done" =>
            /\ task[e].st \notin {"pending", "cancelling"}
            /\ waiter[e] # "pending"

\* the task of workflow e was asked to cancel while it awaited a node
CancelledAtNode(e) ==
    /\ IsWorkflow(e)
    /\ ex[e].pc = "invoking"
    /\ task[e].st \in {"cancelling", "cancelled"}

====
